---- MODULE Spec2Model ----
(***************************************************************************)
(* The "flatbuf" tensor_converter sub-plugin of NNStreamer                  *)
(* (ext/nnstreamer/tensor_converter/tensor_converter_flatbuf.cc):           *)
(* fbc_get_out_config builds the provisional configuration, fbc_convert     *)
(* decodes one flatbuffers container into a GstTensorsConfig and a buffer   *)
(* of memories shared with the input memory.                                *)
(*                                                                          *)
(* C arrays are 0-based, TLA+ sequences 1-based: info[i] of the source is   *)
(* info[i + 1] here.  An optional value (a pointer that may be NULL, a      *)
(* flatbuffers field that may be absent) is a sequence of length 0 or 1.    *)
(***************************************************************************)
EXTENDS Integers, Sequences, FiniteSets, TLC

VARIABLES
    config,      \* the caller-owned GstTensorsConfig, << >> before any call
    frame_size,  \* the caller's gsize the decoder writes through *frame_size
    frames_in,   \* the caller's guint the decoder writes through *frames_in
    in_buf,      \* the input GstBuffer the host holds, << >> when it holds none
    out_buf,     \* the GstBuffer the last fbc_convert returned, << >> for NULL
    kept,        \* output buffers pushed downstream and still alive
    refs,        \* reference count of each GstMemory block, 0 when freed
    nmaps,       \* read mappings of the input memory not yet unmapped
    crashed,     \* the process was terminated (abort or invalid access)
    last_op,     \* the callback that ran last
    call         \* what the last callback did: return value, log, map/unmap

vars == <<config, frame_size, frames_in, in_buf, out_buf, kept, refs, nmaps,
          crashed, last_op, call>>

----------------------------------------------------------------------------
(* Bounds of the model *)

\* NNS_TENSOR_SIZE_LIMIT of the build (16 in nnstreamer), scaled down
NNS_TENSOR_SIZE_LIMIT == 2

\* size in bytes of every input memory
BufSize == 4

\* output buffers that downstream may keep alive at once
MaxKept == 1

\* NNS_TENSOR_RANK_LIMIT of the build
NNS_TENSOR_RANK_LIMIT == 4

----------------------------------------------------------------------------
(* Values *)

NULL == << >>

Some(x) == <<x>>

\* strings the model draws names and stale bytes from
Strings == {"", "a"}

\* what a Tensor table carries besides its name: a tensor_type tag, a
\* dimension vector of NNS_TENSOR_RANK_LIMIT entries, and the data vector
\* (where its bytes start in the mapped memory, and the length its length
\* field declares).  The second data vector ends with a full memory of
\* BufSize bytes and past the end of a shorter one
TensorBodies ==
    {[type |-> "_NNS_UINT8", dimension |-> <<1, 1, 1, 1>>,
      data |-> [offset |-> 0, length |-> 1]],
     [type |-> "_NNS_FLOAT32", dimension |-> <<2, 1, 1, 1>>,
      data |-> [offset |-> BufSize - 2, length |-> 2]]}

\* frame_rate structs
FrameRates == {[rate_n |-> 30, rate_d |-> 1]}

\* one Tensor table: name may be absent
TensorTables ==
    {[name |-> n, type |-> b.type, dimension |-> b.dimension, data |-> b.data] :
        n \in {NULL} \cup {Some(s) : s \in Strings}, b \in TensorBodies}

RECURSIVE SeqsUpTo(_, _)
SeqsUpTo(S, n) ==
    IF n = 0 THEN {<< >>}
    ELSE LET shorter == SeqsUpTo(S, n - 1)
         IN  shorter \cup {Append(s, x) : s \in {t \in shorter : Len(t) = n - 1}, x \in S}

\* vectors of one repeated Tensor table, one table over the limit included
Repeated == {[i \in 1..n |-> r] : n \in 0..(NNS_TENSOR_SIZE_LIMIT + 1), r \in TensorTables}

\* the Tensors root table: num_tensor, fr (may be absent) and the tensor
\* vector, which holds num_tensor tables.  With fr present every vector up
\* to the limit is drawn; the vectors over the limit, and those beside an
\* absent fr (which ends the call before any table is read), are the repeated
Containers ==
    {[num_tensor |-> Len(t), fr |-> f, tensor |-> t] :
        f \in {Some(r) : r \in FrameRates},
        t \in SeqsUpTo(TensorTables, NNS_TENSOR_SIZE_LIMIT) \cup Repeated}
    \cup {[num_tensor |-> Len(t), fr |-> NULL, tensor |-> t] : t \in Repeated}

\* an input GstBuffer: its one memory block (mem) and the size of it (a full
\* BufSize, or one byte short), whether gst_memory_map succeeds on it, and
\* the flatbuffers bytes it carries (never read when the map fails, so one
\* content stands for all)
InputBuffers(m) ==
    [mem : {m}, size : {BufSize - 1, BufSize}, mappable : {TRUE}, data : Containers]
    \cup [mem : {m}, size : {BufSize}, mappable : {FALSE},
          data : {c \in Containers : c.tensor = << >>}]

\* the input buffers of the buffer-lifetime specification: full size,
\* mappable or not, fr present, 0 to limit + 1 copies of one table named "a"
LifeBuffers(m) ==
    {b \in InputBuffers(m) :
        /\ b.size = BufSize
        /\ b.data.fr # NULL
        /\ b.data.tensor \in Repeated
        /\ \A i \in 1..Len(b.data.tensor) : b.data.tensor[i].name = Some("a")}

----------------------------------------------------------------------------
(* GstTensorsConfig *)

\* gst_tensor_info_init: no name, type _NNS_END, dimension all 0
InitTensorInfo == [name |-> NULL, type |-> "_NNS_END",
                   dimension |-> [j \in 1..NNS_TENSOR_RANK_LIMIT |-> 0]]

\* gst_tensors_config_init: no tensors, every info initialised, rate -1/-1
gst_tensors_config_init ==
    [num_tensors |-> 0, rate_n |-> -1, rate_d |-> -1,
     info |-> [i \in 1..NNS_TENSOR_SIZE_LIMIT |-> InitTensorInfo]]

\* gst_tensor_parse_dimension on the tokens of "1:1:1:1": one entry per
\* token up to the rank limit, the rest padded with 1; returns the rank
gst_tensor_parse_dimension(tokens) ==
    [rank |-> IF Len(tokens) < NNS_TENSOR_RANK_LIMIT THEN Len(tokens)
              ELSE NNS_TENSOR_RANK_LIMIT,
     dimension |-> [j \in 1..NNS_TENSOR_RANK_LIMIT |->
                       IF j <= Len(tokens) THEN tokens[j] ELSE 1]]

----------------------------------------------------------------------------
(* fbc_get_out_config *)

\* GstCaps handed to fbc_get_out_config: NULL, caps without a structure, or
\* caps whose first structure has a framerate fraction or none
CapsValues == {NULL} \cup
              {Some([structure |-> st]) :
                  st \in {NULL} \cup {Some([framerate |-> fr]) :
                      fr \in {NULL} \cup {Some(f) : f \in FrameRates}}}

\* mutant of OutConfigRate: the framerate field is never read
OutConfigRateDefault(structure) == [rate_n |-> 0, rate_d |-> 1]

\* the framerate branch: copy the fraction when the structure has the field,
\* otherwise 0/1
OutConfigRate(structure) ==
    IF structure.framerate # NULL
    THEN structure.framerate[1]
    ELSE [rate_n |-> 0, rate_d |-> 1]

\* fbc_get_out_config (in_cap, config): the gboolean it returns and the
\* config it leaves; cfg is NULL for a NULL config pointer
fbc_get_out_config(in_cap, cfg) ==
    IF cfg = NULL THEN [ret |-> FALSE, config |-> cfg]
    ELSE LET c0 == gst_tensors_config_init IN
    IF in_cap = NULL THEN [ret |-> FALSE, config |-> Some(c0)]
    ELSE IF in_cap[1].structure = NULL THEN [ret |-> FALSE, config |-> Some(c0)]
    ELSE LET structure == in_cap[1].structure[1]
             parsed == gst_tensor_parse_dimension(<<1, 1, 1, 1>>)
             c1 == [c0 EXCEPT !.info[1].type = "_NNS_UINT8",
                              !.num_tensors = 1,
                              !.info[1].dimension = parsed.dimension]
             rate == OutConfigRate(structure)
         IN  IF parsed.rank = 0 THEN [ret |-> FALSE, config |-> Some(c1)]
             ELSE [ret |-> TRUE,
                   config |-> Some([c1 EXCEPT !.rate_n = rate.rate_n,
                                              !.rate_d = rate.rate_d])]

----------------------------------------------------------------------------
(* fbc_convert *)

\* gst_memory_map (in_mem, &in_info, GST_MAP_READ)
gst_memory_map(buf) == buf.mappable

\* mutant of gst_memory_share: the new memory aliases the bytes of in_mem
\* without holding a reference on it
gst_memory_alias(in_mem, offset, size) ==
    [parent |-> in_mem, offset |-> offset, size |-> size, holds_ref |-> FALSE]

\* gst_memory_share (in_mem, offset, mem_size): a new memory that aliases
\* [offset, offset + size) of its parent and holds a reference on it
gst_memory_share(in_mem, offset, size) ==
    [parent |-> in_mem, offset |-> offset, size |-> size, holds_ref |-> TRUE]

\* offset = tensor_data->data () - in_info.data
DataOffset(t) == t.data.offset

\* mem_size = VectorLength (tensor_data)
VectorLength(t) == t.data.length

\* name()->str().c_str(): the std::string temporary dies at the end of the
\* declaration, so the bytes strlen and g_strdup later read through name are
\* those of a destroyed object: the string itself or any other bytes
DanglingCStr(s) == Strings

\* (name && strlen (name) > 0) ? g_strdup (name) : NULL
InfoName(name) == IF name # "" THEN Some(name) ELSE NULL

\* One iteration of the loop for index i (1-based) on the state the loop
\* carries (config, *frame_size, the memories appended to out_buf, whether
\* the process died, how many Tensor tables were read): the set of states
\* the iteration may leave
ConvertTensor(buf, i, st) ==
    LET t == buf.data.tensor[i] IN
    IF t.name = NULL
    THEN \* name () returns nullptr and ->str () dereferences it
         {[st EXCEPT !.crashed = TRUE, !.reads = @ + 1]}
    ELSE {[st EXCEPT
              !.config.info[i] = [name |-> InfoName(name),
                                  type |-> t.type,
                                  dimension |-> t.dimension],
              !.frame_size = @ + VectorLength(t),
              !.views = Append(@, gst_memory_share(buf.mem, DataOffset(t),
                                                   VectorLength(t))),
              !.reads = @ + 1]
           : name \in DanglingCStr(t.name[1])}

RECURSIVE ConvertLoop(_, _, _)
\* for (i = 0; i < config->info.num_tensors; i++)
ConvertLoop(buf, i, st) ==
    IF st.crashed \/ i > st.config.num_tensors THEN {st}
    ELSE UNION {ConvertLoop(buf, i + 1, s) : s \in ConvertTensor(buf, i, st)}

\* mutant of OverLimit: the limit itself is refused
OverLimitOffByOne(n) == n >= NNS_TENSOR_SIZE_LIMIT

\* if (tensors->num_tensor () > NNS_TENSOR_SIZE_LIMIT)
OverLimit(n) == n > NNS_TENSOR_SIZE_LIMIT

\* mutant of LimitExit: the capacity branch returns without gst_memory_unmap
LimitExitNoUnmap(cfg, fs, fi) ==
    [ret |-> NULL, config |-> cfg, frame_size |-> fs, frames_in |-> fi,
     crashed |-> FALSE, maps |-> 1, unmaps |-> 0, log |-> "limit", reads |-> 0]

\* mutant of ResetCounters: *frame_size keeps the caller's value
ResetCountersStale(fs, fi) == [frame_size |-> fs, frames_in |-> 1]

\* *frame_size = 0; *frames_in = 1; whatever the caller's values fs, fi were
ResetCounters(fs, fi) == [frame_size |-> 0, frames_in |-> 1]

\* what the capacity branch does: log, then goto done (unmap, return out_buf,
\* still NULL)
LimitExit(cfg, fs, fi) ==
    [ret |-> NULL, config |-> cfg, frame_size |-> fs, frames_in |-> fi,
     crashed |-> FALSE, maps |-> 1, unmaps |-> 1, log |-> "limit", reads |-> 0]

\* fbc_convert (in_buf, frame_size, frames_in, config): every outcome the
\* call may have
fbc_convert(buf, cfg, fs, fi) ==
    IF ~gst_memory_map(buf)
    THEN {[ret |-> NULL, config |-> cfg, frame_size |-> fs, frames_in |-> fi,
           crashed |-> FALSE, maps |-> 0, unmaps |-> 0, log |-> "map", reads |-> 0]}
    ELSE LET tensors == buf.data
             cfg1 == [cfg EXCEPT !.num_tensors = tensors.num_tensor]
         IN
         IF OverLimit(tensors.num_tensor)
         THEN {LimitExit(cfg1, fs, fi)}
         ELSE IF tensors.fr = NULL
         THEN \* tensors->fr () returns nullptr and ->rate_n () dereferences it
              {[ret |-> NULL, config |-> cfg1, frame_size |-> fs, frames_in |-> fi,
                crashed |-> TRUE, maps |-> 1, unmaps |-> 0, log |-> "", reads |-> 0]}
         ELSE LET cfg2 == [cfg1 EXCEPT !.rate_n = tensors.fr[1].rate_n,
                                       !.rate_d = tensors.fr[1].rate_d]
                  counters == ResetCounters(fs, fi)
                  st0 == [config |-> cfg2, frame_size |-> counters.frame_size,
                          views |-> << >>, crashed |-> FALSE, reads |-> 0]
              IN  {[ret |-> IF s.crashed THEN NULL ELSE Some(s.views),
                    config |-> s.config, frame_size |-> s.frame_size,
                    frames_in |-> counters.frames_in, crashed |-> s.crashed, maps |-> 1,
                    unmaps |-> IF s.crashed THEN 0 ELSE 1, log |-> "",
                    reads |-> s.reads]
                   : s \in ConvertLoop(buf, 1, st0)}

----------------------------------------------------------------------------
(* The host: buffers, references, calls *)

MemIds == 1..(MaxKept + 1)

\* the record of a call: whether it returned TRUE / a buffer, what it logged,
\* the gst_memory_map and gst_memory_unmap calls it made, the Tensor tables
\* it read, the arguments of fbc_get_out_config, and what the first
\* fbc_convert on the held input buffer produced
NoCall == [ret |-> FALSE, log |-> "", maps |-> 0, unmaps |-> 0, reads |-> 0,
           in_cap |-> NULL, first |-> NULL]

\* what a caller sees of an fbc_convert outcome: buffer or NULL, the config's
\* count, rate and the infos below the count, the memories' offsets and sizes
Summary(o) ==
    [ok |-> o.ret # NULL,
     crashed |-> o.crashed,
     num_tensors |-> o.config.num_tensors,
     rate_n |-> o.config.rate_n,
     rate_d |-> o.config.rate_d,
     info |-> [i \in 1..(IF o.config.num_tensors < NNS_TENSOR_SIZE_LIMIT
                         THEN o.config.num_tensors ELSE NNS_TENSOR_SIZE_LIMIT)
                 |-> o.config.info[i]],
     views |-> IF o.ret = NULL THEN << >>
               ELSE [k \in 1..Len(o.ret[1]) |->
                        [offset |-> o.ret[1][k].offset, size |-> o.ret[1][k].size]]]

\* what downstream keeps of a buffer: which memory each of its memories
\* aliases and whether it holds a reference on it
Owners(views) ==
    [k \in 1..Len(views) |-> [parent |-> views[k].parent, holds_ref |-> views[k].holds_ref]]

\* the memories of a buffer that hold a reference on memory m
RefsHeld(views, m) ==
    Cardinality({k \in 1..Len(views) : views[k].parent = m /\ views[k].holds_ref})

\* unref of every memory of a buffer
Unref(r, views) == [m \in MemIds |-> r[m] - RefsHeld(views, m)]

Init ==
    /\ config = gst_tensors_config_init
    /\ frame_size = 0
    /\ frames_in = 0
    /\ in_buf = NULL
    /\ out_buf = NULL
    /\ kept = << >>
    /\ refs = [m \in MemIds |-> 0]
    /\ nmaps = 0
    /\ crashed = FALSE
    /\ last_op = "init"
    /\ call = NoCall

\* the host calls fbc_get_out_config with caps and its config (or NULL);
\* caps are negotiated between buffers, when the host holds none
GetOutConfig ==
    /\ ~crashed
    /\ in_buf = NULL
    /\ out_buf = NULL
    /\ \E in_cap \in CapsValues, null_config \in BOOLEAN :
          LET r == fbc_get_out_config(in_cap, IF null_config THEN NULL ELSE Some(config))
          IN  /\ config' = IF null_config THEN config ELSE r.config[1]
              /\ call' = [NoCall EXCEPT !.ret = r.ret, !.in_cap = Some([caps |-> in_cap, null_config |-> null_config])]
    /\ last_op' = "fbc_get_out_config"
    /\ UNCHANGED <<frame_size, frames_in, in_buf, out_buf, kept, refs, nmaps, crashed>>

\* the effect of one fbc_convert call on buffer buf with outcome o; first
\* is the record of the first call on buf
Called(buf, o, first) ==
    /\ config' = o.config
    /\ frame_size' = o.frame_size
    /\ frames_in' = o.frames_in
    /\ out_buf' = o.ret
    /\ crashed' = o.crashed
    /\ nmaps' = nmaps + o.maps - o.unmaps
    /\ call' = [NoCall EXCEPT !.ret = (o.ret # NULL), !.log = o.log, !.maps = o.maps,
                              !.unmaps = o.unmaps, !.reads = o.reads,
                              !.first = first]
    /\ last_op' = "fbc_convert"

\* a new input buffer on the free memory m arrives (one of LifeBuffers when
\* life, else one of InputBuffers) and the host calls fbc_convert on it
ConvertNew(life) ==
    /\ ~crashed
    /\ in_buf = NULL
    /\ out_buf = NULL
    /\ \E m \in MemIds :
          /\ refs[m] = 0
          /\ \A n \in MemIds : refs[n] = 0 => m <= n
          /\ \E buf \in (IF life THEN LifeBuffers(m) ELSE InputBuffers(m)) :
                \E o \in fbc_convert(buf, config, frame_size, frames_in) :
                   /\ Called(buf, o, Some(Summary(o)))
                   /\ in_buf' = Some(buf)
                   /\ refs' = [refs EXCEPT ![m] = 1 + (IF o.ret = NULL THEN 0
                                                       ELSE RefsHeld(o.ret[1], m))]
    /\ UNCHANGED kept

Convert == ConvertNew(FALSE)

\* the same call on the buffers the buffer-lifetime specification draws
ConvertLife == ConvertNew(TRUE)

\* the host calls fbc_convert again on the buffer it still holds
ConvertAgain ==
    /\ ~crashed
    /\ in_buf # NULL
    /\ out_buf = NULL
    /\ \E o \in fbc_convert(in_buf[1], config, frame_size, frames_in) :
          /\ Called(in_buf[1], o, call.first)
          /\ refs' = [refs EXCEPT ![in_buf[1].mem] =
                         @ + (IF o.ret = NULL THEN 0 ELSE RefsHeld(o.ret[1], in_buf[1].mem))]
    /\ UNCHANGED <<in_buf, kept>>

\* gst_buffer_unref of the input buffer; the call on it is over
ReleaseIn ==
    /\ ~crashed
    /\ in_buf # NULL
    /\ refs' = [refs EXCEPT ![in_buf[1].mem] = @ - 1]
    /\ in_buf' = NULL
    /\ last_op' = "idle"
    /\ call' = NoCall
    /\ UNCHANGED <<config, frame_size, frames_in, out_buf, kept, nmaps, crashed>>

\* gst_buffer_unref of the buffer fbc_convert returned
ReleaseOut ==
    /\ ~crashed
    /\ out_buf # NULL
    /\ refs' = Unref(refs, out_buf[1])
    /\ out_buf' = NULL
    /\ UNCHANGED <<config, frame_size, frames_in, in_buf, kept, nmaps, crashed, last_op, call>>

\* the host pushes the returned buffer downstream, which keeps it
PushOut ==
    /\ ~crashed
    /\ out_buf # NULL
    /\ Len(kept) < MaxKept
    /\ kept' = Append(kept, Owners(out_buf[1]))
    /\ out_buf' = NULL
    /\ UNCHANGED <<config, frame_size, frames_in, in_buf, refs, nmaps, crashed, last_op, call>>

\* downstream unrefs the oldest buffer it keeps
ReleaseKept ==
    /\ ~crashed
    /\ kept # << >>
    /\ refs' = Unref(refs, Head(kept))
    /\ kept' = Tail(kept)
    /\ UNCHANGED <<config, frame_size, frames_in, in_buf, out_buf, nmaps, crashed, last_op, call>>

\* one frame at a time: the host unrefs what a call returned before the next
Next ==
    \/ GetOutConfig
    \/ Convert
    \/ ConvertAgain
    \/ ReleaseIn
    \/ ReleaseOut

Spec == Init /\ [][Next]_vars

\* buffers pushed downstream outlive the input buffers they alias
NextLife ==
    \/ GetOutConfig
    \/ ConvertLife
    \/ ConvertAgain
    \/ ReleaseIn
    \/ ReleaseOut
    \/ PushOut
    \/ ReleaseKept

SpecLife == Init /\ [][NextLife]_vars

----------------------------------------------------------------------------
(* Claims *)

\* fbc_convert was the last callback, on the input buffer the host holds
AfterConvert == last_op = "fbc_convert" /\ in_buf # NULL

\* ... and it returned
Returned == AfterConvert /\ ~crashed

\* ... a buffer, which the host still holds
Succeeded == Returned /\ call.ret /\ out_buf # NULL

\* a step of fbc_convert
FbcConvertStep == Convert \/ ConvertAgain

\* the data vector of Tensor table t lies inside the memory of buf
PayloadInBounds(buf, t) == t.data.offset + t.data.length <= buf.size

\* the Tensor tables fbc_convert is to read from buf
Records(buf) == [i \in 1..buf.data.num_tensor |-> buf.data.tensor[i]]

RECURSIVE SumSizes(_)
SumSizes(views) == IF views = << >> THEN 0 ELSE Head(views).size + SumSizes(Tail(views))

RECURSIVE SumLengths(_)
SumLengths(ts) == IF ts = << >> THEN 0 ELSE Head(ts).data.length + SumLengths(Tail(ts))

\* C1: every memory of a returned buffer lies inside the input memory
\* (offset + size <= the input's size), and a container with a data vector
\* that ends past the input memory makes fbc_convert fail
C1_ViewsInBounds ==
    Returned =>
        LET buf == in_buf[1] IN
        /\ Succeeded =>
              \A k \in 1..Len(out_buf[1]) :
                 out_buf[1][k].offset + out_buf[1][k].size <= buf.size
        /\ (/\ buf.mappable
            /\ buf.data.num_tensor <= NNS_TENSOR_SIZE_LIMIT
            /\ \E i \in 1..buf.data.num_tensor : ~PayloadInBounds(buf, buf.data.tensor[i]))
           => ~call.ret

\* every Tensor table of the container has a name
AllNamed(buf) == \A i \in 1..buf.data.num_tensor : buf.data.tensor[i].name # NULL

C3_FailureLeavesConfig ==
    [][(FbcConvertStep /\ ~crashed' /\ out_buf' = NULL) => config' = config]_vars

\* C4: fbc_convert never terminates the process, and on a container it
\* cannot read (here: no frame-rate field) it unmaps and returns NULL
C4_ParseErrorIsLocal ==
    /\ ~crashed
    /\ (AfterConvert /\ in_buf[1].mappable /\ in_buf[1].data.fr = NULL) =>
          (~call.ret /\ out_buf = NULL /\ nmaps = 0)

\* a container the decoder is meant to accept: frame rate present, at most
\* NNS_TENSOR_SIZE_LIMIT tensors, every data vector inside the memory
WellFormed(buf) ==
    /\ buf.mappable
    /\ buf.data.fr # NULL
    /\ buf.data.num_tensor <= NNS_TENSOR_SIZE_LIMIT
    /\ \A i \in 1..buf.data.num_tensor : PayloadInBounds(buf, buf.data.tensor[i])

\* the info a Tensor table is to be decoded to: an absent or empty name
\* becomes no name
ExpectedInfo(t) ==
    [name |-> IF t.name = NULL \/ t.name = Some("") THEN NULL ELSE t.name,
     type |-> t.type,
     dimension |-> t.dimension]

\* C5: a well-formed container of k <= NNS_TENSOR_SIZE_LIMIT tensors is
\* decoded: num_tensors = k, the rate is the container's, info[i] holds the
\* name, type and dimension of tensor i, and k = 0 gives an empty buffer
C5_ConfigMatchesContainer ==
    (AfterConvert /\ WellFormed(in_buf[1])) =>
        LET c == in_buf[1].data IN
        /\ ~crashed
        /\ call.ret
        /\ config.num_tensors = c.num_tensor
        /\ config.rate_n = c.fr[1].rate_n
        /\ config.rate_d = c.fr[1].rate_d
        /\ \A i \in 1..c.num_tensor : config.info[i] = ExpectedInfo(c.tensor[i])
        /\ (c.num_tensor = 0 /\ out_buf # NULL) => out_buf[1] = << >>

\* C6: a returned buffer holds config.num_tensors memories, the i-th with
\* the offset and length of the i-th data vector, and *frame_size is the sum
\* of their sizes, which is the sum of the data vectors' lengths
C6_ViewsMatchPayloads ==
    Succeeded =>
        LET views == out_buf[1]
            ts == Records(in_buf[1])
        IN  /\ Len(views) = config.num_tensors
            /\ Len(views) = Len(ts)
            /\ \A k \in 1..Len(views) :
                  /\ views[k].offset = ts[k].data.offset
                  /\ views[k].size = ts[k].data.length
            /\ SumSizes(views) = SumLengths(ts)
            /\ frame_size = SumSizes(views)

\* C6 witness: a returned buffer of two or more memories, the first two of
\* different data vectors
C6_TwoDistinctViews ==
    /\ Succeeded
    /\ Len(out_buf[1]) >= 2
    /\ out_buf[1][1].offset # out_buf[1][2].offset
    /\ out_buf[1][1].size # out_buf[1][2].size
    /\ frame_size = SumSizes(out_buf[1])

\* the memories that some memory of a live output buffer aliases
AliasedMemories ==
    (IF out_buf = NULL THEN {} ELSE {out_buf[1][k].parent : k \in 1..Len(out_buf[1])})
    \cup UNION {{kept[j][k].parent : k \in 1..Len(kept[j])} : j \in 1..Len(kept)}

\* C7: a memory that a live output buffer aliases is never freed, whatever
\* the order of the calls and of the unrefs of input and output buffers
C7_NoDanglingView ==
    ~crashed =>
        /\ \A m \in AliasedMemories : refs[m] > 0
        /\ in_buf # NULL => refs[in_buf[1].mem] > 0

\* C7 witness: the input buffer is gone, buffers made from its memory live on
\* (one returned and one kept downstream)
C7_InputReleasedFirst ==
    /\ ~crashed
    /\ in_buf = NULL
    /\ out_buf # NULL
    /\ Len(out_buf[1]) > 0
    /\ kept # << >>
    /\ \E j \in 1..Len(kept) : Len(kept[j]) > 0

\* C8: with a config and caps that have a structure, fbc_get_out_config
\* returns TRUE and leaves one uint8 tensor of dimension 1:1:1:1 and the
\* structure's framerate, 0/1 without one; with a config it returns FALSE
\* only for NULL caps or caps without a structure
C8_OutConfig ==
    last_op = "fbc_get_out_config" =>
        LET a == call.in_cap[1] IN
        /\ (~a.null_config /\ a.caps # NULL /\ a.caps[1].structure # NULL) =>
              LET fr == a.caps[1].structure[1].framerate IN
              /\ call.ret
              /\ config.num_tensors = 1
              /\ config.info[1].type = "_NNS_UINT8"
              /\ config.info[1].dimension = <<1, 1, 1, 1>>
              /\ fr # NULL => (config.rate_n = fr[1].rate_n /\ config.rate_d = fr[1].rate_d)
              /\ fr = NULL => (config.rate_n = 0 /\ config.rate_d = 1)
        /\ (~a.null_config /\ ~call.ret) =>
              (a.caps = NULL \/ a.caps[1].structure = NULL)

\* C8 witness: fbc_get_out_config returned TRUE on caps with a framerate
C8_RateCopied ==
    /\ last_op = "fbc_get_out_config"
    /\ call.ret
    /\ call.in_cap[1].caps[1].structure[1].framerate # NULL
    /\ config.rate_n = 30
    /\ config.rate_d = 1

\* what the host sees of the last fbc_convert, as Summary records it
Seen ==
    [ok |-> call.ret,
     crashed |-> crashed,
     num_tensors |-> config.num_tensors,
     rate_n |-> config.rate_n,
     rate_d |-> config.rate_d,
     info |-> [i \in 1..(IF config.num_tensors < NNS_TENSOR_SIZE_LIMIT
                         THEN config.num_tensors ELSE NNS_TENSOR_SIZE_LIMIT)
                 |-> config.info[i]],
     views |-> IF out_buf = NULL THEN << >>
               ELSE [k \in 1..Len(out_buf[1]) |->
                        [offset |-> out_buf[1][k].offset, size |-> out_buf[1][k].size]]]

\* C9: fbc_convert on a buffer decoded before gives what the first call on
\* that buffer gave: same outcome, num_tensors, rate, infos, offsets, sizes
C9_SameResultAgain ==
    (AfterConvert /\ call.first # NULL /\ (call.ret => out_buf # NULL)) =>
        Seen = call.first[1]

====
